---- MODULE Spec2Model ----
(***************************************************************************)
(* State-machine model of the NYC taxi fare predictor: the FastAPI          *)
(* application (backend/app), its TaxiFarePredictor pipeline and the         *)
(* EnhancedTaxiFarePredictor shipped with the model (backend/models).        *)
(*                                                                           *)
(* Fixed-point units used for the program's floats:                          *)
(*   coordinates   1e-4 degree        money        cent (1e-2 dollar)        *)
(*   distances     1e-3 mile          confidence   1e-3                      *)
(*   angles        1e-7 radian        durations    1e-1 minute               *)
(*   logarithms    1e-3               multipliers  1e-3                      *)
(***************************************************************************)
EXTENDS Integers, Sequences, FiniteSets, TLC

VARIABLES
    files,               \* the deployed artifacts: model, scaler and config files
    clock,               \* the wall clock, in ticks since the first instant
    app,                 \* the application process: "created", "up" or "failed"
    predictor,           \* main.py's global predictor
    predictor_instance,  \* prediction.py's global _predictor_instance
    self,                \* the fields of the one TaxiFarePredictor object
    enhanced,            \* the fields of an EnhancedTaxiFarePredictor object
    response,            \* the outcome of the latest call or request
    calls,               \* the pipeline steps the latest call executed, in order
    prev                 \* the call before the latest one, kept when its arguments were the same

vars == <<files, clock, app, predictor, predictor_instance, self, enhanced, response, calls, prev>>

\* Python's None, and a value that is present: an optional value is a
\* sequence of at most one element.
None == << >>

Some(x) == <<x>>

----------------------------------------------------------------------------
(* Bounds of the model. *)

\* The wall clock advances at most MaxTick times.
MaxTick == 2
\* Hours between two instants of the wall clock.
ClockStepHours == 29

----------------------------------------------------------------------------
(* Arithmetic helpers for the fixed-point representation. *)

Abs(x) == IF x < 0 THEN -x ELSE x

Max(a, b) == IF a >= b THEN a ELSE b

Min(a, b) == IF a <= b THEN a ELSE b

\* Python's round(): x / k to the nearest integer, ties to the even one.
RoundDiv(x, k) ==
    LET q == x \div k
        r == x % k
    IN  IF 2 * r < k THEN q
        ELSE IF 2 * r > k THEN q + 1
        ELSE IF q % 2 = 0 THEN q ELSE q + 1

RECURSIVE SqrtSearch(_, _, _)
SqrtSearch(lo, hi, x) ==
    IF lo >= hi THEN lo
    ELSE LET mid == (lo + hi + 1) \div 2
         IN  IF mid * mid <= x THEN SqrtSearch(mid, hi, x)
             ELSE SqrtSearch(lo, mid - 1, x)

\* floor(sqrt(x)) for 0 <= x < 2^31
ISqrt(x) == SqrtSearch(0, 46340, x)

RECURSIVE Log2Floor(_)
Log2Floor(x) == IF x < 2 THEN 0 ELSE 1 + Log2Floor(x \div 2)

RECURSIVE Pow2(_)
Pow2(k) == IF k = 0 THEN 1 ELSE 2 * Pow2(k - 1)

\* 10000 * ln(x) for an integer x >= 1: x = 2^k * m with 1 <= m < 2, and
\* ln(m) = 2 * atanh((m - 1) / (m + 1)) by its series.
LnE4(x) ==
    LET k  == Log2Floor(x)
        p  == Pow2(k)
        z  == ((x - p) * 10000) \div (x + p)
        z2 == (z * z) \div 10000
        z3 == (z2 * z) \div 10000
        z5 == (z3 * z2) \div 10000
        z7 == (z5 * z2) \div 10000
    IN  k * 6931 + 2 * (z + z3 \div 3 + z5 \div 5 + z7 \div 7)

\* np.log of a value held in thousandths, in thousandths
LogMilli(x) == RoundDiv(LnE4(x) - LnE4(1000), 10)

\* np.log1p of a value held in thousandths, in thousandths
Log1pMilli(x) == LogMilli(1000 + x)

----------------------------------------------------------------------------
(* Geometry: backend/app/utils.py and EnhancedTaxiFarePredictor.             *)

\* Radius of the earth in miles, utils.py
EARTH_RADIUS == 3956
\* Radius of the earth in miles, enhanced_taxi_fare_predictor.py
ENHANCED_EARTH_RADIUS == 3959

\* Sample coordinates a request can carry, as <<lat, lon>>.
PT_MIDTOWN    == <<407480, -739840>>
PT_UPTOWN     == <<407640, -739730>>
PT_NEXTDOOR   == <<407481, -739840>>
PT_NEAR_JFK   == <<406450, -737800>>
PT_NEAR_EWR   == <<406900, -741700>>
PT_NORTH      == <<410000, -739840>>
PT_BLOCK_AWAY == <<407523, -739840>>

Points ==
    {PT_MIDTOWN, PT_UPTOWN, PT_NEXTDOOR, PT_NEAR_JFK, PT_NEAR_EWR, PT_NORTH, PT_BLOCK_AWAY}

\* Landmarks of _prepare_features and predict_fare, as <<lat, lon>>.
JFK == <<406413, -737781>>
EWR == <<406895, -741745>>
LGA == <<407769, -738740>>
MANHATTAN_CENTER == <<407589, -739851>>

\* The haversine central angle c = 2 * asin(sqrt(a)) of utils.py lines 34-43
\* (the same expression as enhanced_taxi_fare_predictor.py lines 39-43 without
\* the radius), evaluated in double precision on the sample coordinates and
\* the landmarks: <<lat1, lon1, lat2, lon2, c>>.
HaversineAngles ==
    { <<407480, -739840, 407480, -739840, 0>>,
      <<407480, -739840, 407640, -739730, 3149>>,
      <<407480, -739840, 407481, -739840, 17>>,
      <<407480, -739840, 406450, -737800, 32433>>,
      <<407480, -739840, 406900, -741700, 26605>>,
      <<407480, -739840, 410000, -739840, 43982>>,
      <<407480, -739840, 407523, -739840, 750>>,
      <<407480, -739840, 406413, -737781, 33003>>,
      <<407480, -739840, 406895, -741745, 27190>>,
      <<407480, -739840, 407769, -738740, 15391>>,
      <<407480, -739840, 407589, -739851, 1908>>,
      <<407640, -739730, 407480, -739840, 3149>>,
      <<407640, -739730, 407640, -739730, 0>>,
      <<407640, -739730, 407481, -739840, 3133>>,
      <<407640, -739730, 406450, -737800, 32916>>,
      <<407640, -739730, 406900, -741700, 29082>>,
      <<407640, -739730, 410000, -739840, 41215>>,
      <<407640, -739730, 407523, -739840, 2507>>,
      <<407640, -739730, 406413, -737781, 33521>>,
      <<407640, -739730, 406895, -741745, 29654>>,
      <<407640, -739730, 407769, -738740, 13278>>,
      <<407640, -739730, 407589, -739851, 1831>>,
      <<407481, -739840, 407480, -739840, 17>>,
      <<407481, -739840, 407640, -739730, 3133>>,
      <<407481, -739840, 407481, -739840, 0>>,
      <<407481, -739840, 406450, -737800, 32442>>,
      <<407481, -739840, 406900, -741700, 26612>>,
      <<407481, -739840, 410000, -739840, 43965>>,
      <<407481, -739840, 407523, -739840, 733>>,
      <<407481, -739840, 406413, -737781, 33013>>,
      <<407481, -739840, 406895, -741745, 27196>>,
      <<407481, -739840, 407769, -738740, 15386>>,
      <<407481, -739840, 407589, -739851, 1891>>,
      <<406450, -737800, 407480, -739840, 32433>>,
      <<406450, -737800, 407640, -739730, 32916>>,
      <<406450, -737800, 407481, -739840, 32442>>,
      <<406450, -737800, 406450, -737800, 0>>,
      <<406450, -737800, 406900, -741700, 52224>>,
      <<406450, -737800, 410000, -739840, 67564>>,
      <<406450, -737800, 407523, -739840, 32854>>,
      <<406450, -737800, 406413, -737781, 693>>,
      <<406450, -737800, 406895, -741745, 52800>>,
      <<406450, -737800, 407769, -738740, 26165>>,
      <<406450, -737800, 407589, -739851, 33640>>,
      <<406900, -741700, 407480, -739840, 26605>>,
      <<406900, -741700, 407640, -739730, 29082>>,
      <<406900, -741700, 407481, -739840, 26612>>,
      <<406900, -741700, 406450, -737800, 52224>>,
      <<406900, -741700, 406900, -741700, 0>>,
      <<406900, -741700, 410000, -739840, 59418>>,
      <<406900, -741700, 407523, -739840, 26899>>,
      <<406900, -741700, 406413, -737781, 52574>>,
      <<406900, -741700, 406895, -741745, 602>>,
      <<406900, -741700, 407769, -738740, 41982>>,
      <<406900, -741700, 407589, -739851, 27253>>,
      <<410000, -739840, 407480, -739840, 43982>>,
      <<410000, -739840, 407640, -739730, 41215>>,
      <<410000, -739840, 407481, -739840, 43965>>,
      <<410000, -739840, 406450, -737800, 67564>>,
      <<410000, -739840, 406900, -741700, 59418>>,
      <<410000, -739840, 410000, -739840, 0>>,
      <<410000, -739840, 407523, -739840, 43232>>,
      <<410000, -739840, 406413, -737781, 68256>>,
      <<410000, -739840, 406895, -741745, 59745>>,
      <<410000, -739840, 407769, -738740, 41555>>,
      <<410000, -739840, 407589, -739851, 42080>>,
      <<407523, -739840, 407480, -739840, 750>>,
      <<407523, -739840, 407640, -739730, 2507>>,
      <<407523, -739840, 407481, -739840, 733>>,
      <<407523, -739840, 406450, -737800, 32854>>,
      <<407523, -739840, 406900, -741700, 26899>>,
      <<407523, -739840, 410000, -739840, 43232>>,
      <<407523, -739840, 407523, -739840, 0>>,
      <<407523, -739840, 406413, -737781, 33431>>,
      <<407523, -739840, 406895, -741745, 27479>>,
      <<407523, -739840, 407769, -738740, 15162>>,
      <<407523, -739840, 407589, -739851, 1161>> }

CentralAngle(lat1, lon1, lat2, lon2) ==
    (CHOOSE t \in HaversineAngles :
        t[1] = lat1 /\ t[2] = lon1 /\ t[3] = lat2 /\ t[4] = lon2)[5]

\* A planar distance that scales the longitude difference by the cosine of
\* the first latitude only (the cosine linearised about 40.7 degrees).
calculate_planar_distance(pickup_lat, pickup_lon, dropoff_lat, dropoff_lon) ==
    LET cos_e4 == 7581 - ((pickup_lat - 407000) * 1138) \div 100000
        x == ((dropoff_lon - pickup_lon) * cos_e4) \div 10000
        y == dropoff_lat - pickup_lat
    IN  RoundDiv(ISqrt(x * x + y * y) * 6904, 1000)

calculate_haversine_distance(pickup_lat, pickup_lon, dropoff_lat, dropoff_lon) ==
    LET c == CentralAngle(pickup_lat, pickup_lon, dropoff_lat, dropoff_lon)
        r == EARTH_RADIUS
    IN  RoundDiv(c * r, 10000)

haversine_distance(lat1, lng1, lat2, lng2) ==
    LET R == ENHANCED_EARTH_RADIUS
    IN  RoundDiv(R * CentralAngle(lat1, lng1, lat2, lng2), 10000)

\* Bounding box of the web application, utils.py and models.py
NYC_LAT_MIN == 406300
NYC_LAT_MAX == 408500
NYC_LON_MIN == -740500
NYC_LON_MAX == -737500

validate_nyc_coordinates(lat, lon) ==
    (NYC_LAT_MIN <= lat /\ lat <= NYC_LAT_MAX) /\ (NYC_LON_MIN <= lon /\ lon <= NYC_LON_MAX)

----------------------------------------------------------------------------
(* The wall clock read by datetime.now().                                    *)

\* The clock's first instant is Tuesday 2025-06-10 12:00; weekday 0 is Monday.
Now(t) ==
    LET total == 12 + t * ClockStepHours
        days  == total \div 24
    IN  [hour |-> total % 24, day |-> 10 + days, month |-> 6,
         weekday |-> (1 + days) % 7, year |-> 2025, stamp |-> t]

----------------------------------------------------------------------------
(* The deployed artifacts: what joblib.load and json.load read.              *)

\* A regressor reads column pos of the scaled vector:
\*   predict(v) = intercept + slope * v[pos] / 1000
\* An ensemble also exposes estimators_, a list of such regressors.
Regressor(intercept, slope, pos) ==
    [intercept |-> intercept, slope |-> slope, pos |-> pos]

SingleModel(intercept, slope, pos) ==
    [kind |-> "single", intercept |-> intercept, slope |-> slope, pos |-> pos]

EnsembleModel(intercept, slope, pos, estimators) ==
    [kind |-> "ensemble", intercept |-> intercept, slope |-> slope, pos |-> pos,
     estimators_ |-> estimators]

\* hasattr(model, 'estimators_')
HasEstimators(model) == "estimators_" \in DOMAIN model

\* scaler.transform: (x - center) / scale on every column
Scaler(center, scale) == [center |-> center, scale |-> scale]

ScalerTransform(scaler, values) ==
    [i \in 1..Len(values) |-> (values[i] - scaler.center) \div scaler.scale]

\* Whether regressor m can read its column of v.
CanPredict(m, v) == m.pos <= Len(v)

RegressorPredict(m, v) == m.intercept + (m.slope * v[m.pos]) \div 1000

----------------------------------------------------------------------------
(* Feature derivation of the web application: TaxiFarePredictor.             *)

\* The keys of the features dict of _prepare_features, in insertion order.
FEATURE_NAMES ==
    << "pickup_longitude", "pickup_latitude", "dropoff_longitude",
       "dropoff_latitude", "passenger_count", "hour", "day", "month", "weekday",
       "year", "distance", "jfk_pickup_dist", "ewr_pickup_dist",
       "lga_pickup_dist", "is_weekend", "is_rush_hour", "is_night",
       "manhattan_pickup_dist", "is_manhattan_pickup", "is_manhattan_dropoff",
       "log_distance" >>

\* int(b) of a Python bool
BoolInt(b) == IF b THEN 1 ELSE 0

\* dict.get(key, default) on a JSON object
DictGet(d, key, default) == IF key \in DOMAIN d THEN d[key] ELSE default

\* The keys of a dict built by inserting the names of seq in order: a name
\* inserted again keeps its first position.
RECURSIVE DictKeys(_)
DictKeys(seq) ==
    IF seq = << >> THEN << >>
    ELSE LET front == DictKeys(SubSeq(seq, 1, Len(seq) - 1))
             last  == seq[Len(seq)]
         IN  IF \E i \in 1..Len(front) : front[i] = last THEN front
             ELSE Append(front, last)

IsRushHour(hour) == (7 <= hour /\ hour <= 9) \/ (17 <= hour /\ hour <= 19)

IsNight(hour) == hour >= 22 \/ hour <= 5

IsWeekend(weekday) == weekday >= 5

InManhattan(lat, lon) ==
    (407000 <= lat /\ lat <= 408000) /\ (-740200 <= lon /\ lon <= -739300)

\* The features dict of _prepare_features (lines 96-161).
DerivedFeatures(now, pickup_lon, pickup_lat, dropoff_lon, dropoff_lat, passenger_count) ==
    LET distance == calculate_haversine_distance(pickup_lat, pickup_lon, dropoff_lat, dropoff_lon)
    IN  [pickup_longitude |-> pickup_lon,
         pickup_latitude |-> pickup_lat,
         dropoff_longitude |-> dropoff_lon,
         dropoff_latitude |-> dropoff_lat,
         passenger_count |-> passenger_count,
         hour |-> now.hour,
         day |-> now.day,
         month |-> now.month,
         weekday |-> now.weekday,
         year |-> now.year,
         distance |-> distance,
         jfk_pickup_dist |-> calculate_haversine_distance(pickup_lat, pickup_lon, JFK[1], JFK[2]),
         ewr_pickup_dist |-> calculate_haversine_distance(pickup_lat, pickup_lon, EWR[1], EWR[2]),
         lga_pickup_dist |-> calculate_haversine_distance(pickup_lat, pickup_lon, LGA[1], LGA[2]),
         is_weekend |-> BoolInt(IsWeekend(now.weekday)),
         is_rush_hour |-> BoolInt(IsRushHour(now.hour)),
         is_night |-> BoolInt(IsNight(now.hour)),
         manhattan_pickup_dist |->
             calculate_haversine_distance(pickup_lat, pickup_lon,
                                          MANHATTAN_CENTER[1], MANHATTAN_CENTER[2]),
         is_manhattan_pickup |-> BoolInt(InManhattan(pickup_lat, pickup_lon)),
         is_manhattan_dropoff |-> BoolInt(InManhattan(dropoff_lat, dropoff_lon)),
         log_distance |-> LogMilli(Max(distance, 10))]

\* The columns of the DataFrame of _prepare_features (lines 163-170).
AlignedColumns(expected_features, features) ==
    IF expected_features # << >>
    THEN DictKeys(SelectSeq(expected_features, LAMBDA feat : feat \in DOMAIN features))
    ELSE FEATURE_NAMES

\* TaxiFarePredictor._prepare_features: the one-row DataFrame, as its column
\* names and its row.
_prepare_features(config, now, pickup_lon, pickup_lat, dropoff_lon, dropoff_lat, passenger_count) ==
    LET features == DerivedFeatures(now, pickup_lon, pickup_lat, dropoff_lon,
                                    dropoff_lat, passenger_count)
        expected_features == DictGet(config, "web_app_features", << >>)
        columns == AlignedColumns(expected_features, features)
    IN  [columns |-> columns,
         values  |-> [i \in 1..Len(columns) |-> features[columns[i]]]]

\* TaxiFarePredictor._get_borough_id and _get_borough_name
get_borough_name(lat, lon) ==
    IF -740200 <= lon /\ lon <= -739300 /\ 407000 <= lat /\ lat <= 408000
    THEN "Manhattan"
    ELSE IF -740500 <= lon /\ lon <= -738500 /\ 406300 <= lat /\ lat <= 407200
    THEN "Brooklyn"
    ELSE IF -739600 <= lon /\ lon <= -737500 /\ 407200 <= lat /\ lat <= 408000
    THEN "Queens"
    ELSE IF -739300 <= lon /\ lon <= -738000 /\ 408000 <= lat /\ lat <= 408800
    THEN "Bronx"
    ELSE "Staten Island"

----------------------------------------------------------------------------
(* Confidence and fare range: backend/app/utils.py.                          *)

\* Minimum fare, in cents
MIN_FARE == 250
\* Confidence when fewer than two predictions are given
DEFAULT_CONFIDENCE == 700
\* Bounds of the confidence computed from the spread
CONFIDENCE_FLOOR == 100
CONFIDENCE_CEILING == 950

RECURSIVE SeqSum(_)
SeqSum(xs) == IF xs = << >> THEN 0 ELSE xs[1] + SeqSum(Tail(xs))

\* n * statistics.stdev(xs): with S the sum and n the length,
\* n^2 * sum((x - S/n)^2) = sum((n*x - S)^2).
StdevTimesN(xs) ==
    LET n  == Len(xs)
        S  == SeqSum(xs)
        sq == [i \in 1..n |-> (n * xs[i] - S) * (n * xs[i] - S)]
    IN  ISqrt(SeqSum(sq) \div (n - 1))

\* The confidence without its floor and ceiling.
ConfidenceScoreUnclamped(relative_std) == 1000 - relative_std * 2

\* max(0.1, min(0.95, 1.0 - (relative_std * 2)))
ConfidenceScore(relative_std) ==
    Max(CONFIDENCE_FLOOR, Min(CONFIDENCE_CEILING, 1000 - relative_std * 2))

\* A margin of a tenth of the prediction.
DefaultMarginTenth(prediction) == RoundDiv(prediction, 10)

\* margin = prediction * 0.2
DefaultMargin(prediction) == RoundDiv(prediction * 2, 10)

calculate_fare_confidence(prediction, model_predictions, trip_distance) ==
    IF model_predictions = << >> \/ Len(model_predictions) < 2
    THEN LET margin == DefaultMargin(prediction)
         IN  [confidence |-> DEFAULT_CONFIDENCE,
              fare_range |-> [min |-> Max(MIN_FARE, prediction - margin),
                              max |-> prediction + margin]]
    ELSE LET n            == Len(model_predictions)
             std_n        == StdevTimesN(model_predictions)
             sum_pred     == SeqSum(model_predictions)
             \* std_dev / mean_pred = (n * std_dev) / (n * mean_pred)
             relative_std == IF sum_pred > 0 THEN (1000 * std_n) \div sum_pred ELSE 1000
             margin       == RoundDiv(std_n * 3, 2 * n)
         IN  [confidence |-> ConfidenceScore(relative_std),
              fare_range |-> [min |-> Max(MIN_FARE, prediction - margin),
                              max |-> prediction + margin]]

----------------------------------------------------------------------------
(* The prediction pipeline of the web application: TaxiFarePredictor.        *)

\* The outcomes the external calls of one prediction can have: every call
\* succeeds, or the named one raises.
ExternalOutcomes == {"ok", "scaler.transform", "model.predict", "estimator.predict"}

Raised(type, steps) == [raised |-> type, result |-> None, steps |-> steps, passed |-> None]

Returned(result, steps) == [raised |-> "", result |-> Some(result), steps |-> steps]

\* A final fare without the floor.
FinalFareNoFloor(prediction) == prediction

\* final_fare = max(2.50, prediction)
FinalFare(prediction) == Max(MIN_FARE, prediction)

\* The first five estimators, self.model.estimators_[:5]
FirstEstimators(model) == SubSeq(model.estimators_, 1, Min(5, Len(model.estimators_)))

\* Individual predictions with one copy of the prediction for a model without
\* estimators_.
IndividualPredictionsOneCopy(model, features_scaled, prediction, outcome) ==
    IF HasEstimators(model)
    THEN LET ests == FirstEstimators(model)
         IN  IF ests # << >> /\
                (outcome = "estimator.predict"
                 \/ \E i \in 1..Len(ests) : ~CanPredict(ests[i], features_scaled))
             THEN <<prediction, prediction, prediction>>
             ELSE [i \in 1..Len(ests) |-> RegressorPredict(ests[i], features_scaled)]
    ELSE <<prediction>>

\* individual_predictions of predict_fare (lines 286-299)
IndividualPredictions(model, features_scaled, prediction, outcome) ==
    IF HasEstimators(model)
    THEN LET ests == FirstEstimators(model)
         IN  IF ests # << >> /\
                (outcome = "estimator.predict"
                 \/ \E i \in 1..Len(ests) : ~CanPredict(ests[i], features_scaled))
             THEN <<prediction, prediction, prediction>>
             ELSE [i \in 1..Len(ests) |-> RegressorPredict(ests[i], features_scaled)]
    ELSE <<prediction, prediction, prediction>>

\* dict(zip(names, values))
ZipDict(names, values) ==
    LET n    == Min(Len(names), Len(values))
        keys == {names[i] : i \in 1..n}
    IN  [k \in keys |->
            values[CHOOSE i \in 1..n : names[i] = k /\ \A j \in (i + 1)..n : names[j] # k]]

\* Lines 301-319 of predict_fare: the dict it returns.
predict_fare_result(obj, now, features_scaled, prediction, conf, trip_distance, pickup_lon, pickup_lat, dropoff_lon, dropoff_lat) ==
    [fare |-> FinalFare(prediction),
     confidence |-> conf.confidence,
     distance_miles |-> trip_distance,
     duration_minutes |-> RoundDiv(trip_distance * 60, 12 * 100),
     pickup_borough |-> get_borough_name(pickup_lat, pickup_lon),
     dropoff_borough |-> get_borough_name(dropoff_lat, dropoff_lon),
     features |-> ZipDict(obj.feature_names[1], features_scaled),
     model_version |-> "Enhanced Ensemble v1.0",
     prediction_timestamp |-> now.stamp]

\* The first two arguments of the call of calculate_fare_confidence in
\* predict_fare (lines 302-304), kept as a trace of the call.
ConfidenceArguments(prediction, individual_predictions) ==
    [prediction |-> prediction, model_predictions |-> individual_predictions]

\* The steps predict_fare executes once the model has predicted.
StepsAfterPredict(model) ==
    << "_prepare_features", "scaler.transform", "model.predict" >>
    \o (IF HasEstimators(model) /\ FirstEstimators(model) # << >>
        THEN << "estimator.predict" >> ELSE << >>)
    \o << "calculate_fare_confidence" >>

\* Lines 272-304 of predict_fare: the trip information, the individual
\* predictions and the confidence.
predict_fare_confidence(obj, now, features_scaled, prediction, trip_distance, pickup_lon, pickup_lat, dropoff_lon, dropoff_lat, outcome) ==
    Returned(
        predict_fare_result(obj, now, features_scaled, prediction,
            calculate_fare_confidence(prediction,
                IndividualPredictions(obj.model[1], features_scaled, prediction, outcome),
                trip_distance),
            trip_distance, pickup_lon, pickup_lat, dropoff_lon, dropoff_lat),
        StepsAfterPredict(obj.model[1]))
    @@ [passed |-> Some(ConfidenceArguments(prediction,
            IndividualPredictions(obj.model[1], features_scaled, prediction, outcome)))]

\* Lines 266-276 of predict_fare: the model's prediction.
predict_fare_predict(obj, now, features_scaled, pickup_lon, pickup_lat, dropoff_lon, dropoff_lat, outcome) ==
    IF outcome = "model.predict" \/ ~CanPredict(obj.model[1], features_scaled)
    THEN Raised("RuntimeError", << "_prepare_features", "scaler.transform", "model.predict" >>)
    ELSE predict_fare_confidence(obj, now, features_scaled,
            RegressorPredict(obj.model[1], features_scaled),
            calculate_haversine_distance(pickup_lat, pickup_lon, dropoff_lat, dropoff_lon),
            pickup_lon, pickup_lat, dropoff_lon, dropoff_lat, outcome)

\* Lines 257-261 of predict_fare: the scaling.
predict_fare_scale(obj, now, features_df, pickup_lon, pickup_lat, dropoff_lon, dropoff_lat, outcome) ==
    IF outcome = "scaler.transform"
    THEN Raised("RuntimeError", << "_prepare_features", "scaler.transform" >>)
    ELSE predict_fare_predict(obj, now, ScalerTransform(obj.scaler[1], features_df.values),
            pickup_lon, pickup_lat, dropoff_lon, dropoff_lat, outcome)

\* TaxiFarePredictor.predict_fare: what it returns or raises, and the steps
\* it executed. Every exception of the try block is raised again as a
\* RuntimeError.
predict_fare(obj, now, pickup_lon, pickup_lat, dropoff_lon, dropoff_lat, passenger_count, outcome) ==
    IF ~obj.is_loaded THEN Raised("RuntimeError", << >>)
    ELSE predict_fare_scale(obj, now,
            _prepare_features(obj.config[1], now, pickup_lon, pickup_lat,
                              dropoff_lon, dropoff_lat, passenger_count),
            pickup_lon, pickup_lat, dropoff_lon, dropoff_lat, outcome)

----------------------------------------------------------------------------
(* Loading: TaxiFarePredictor.__init__, _load_model_components and           *)
(* get_predictor.                                                            *)

\* The fields __init__ sets before loading.
Unloaded ==
    [model |-> None, scaler |-> None, config |-> None, feature_names |-> None,
     is_loaded |-> FALSE, model_config |-> None]

\* _load_model_components: the fields after loading, or None when a load
\* raises. A file that is missing or unreadable is None.
load_model_components(fs) ==
    IF fs.model = None \/ fs.scaler = None \/ fs.config = None
    THEN None
    ELSE Some([model |-> fs.model, scaler |-> fs.scaler, config |-> fs.config,
               feature_names |-> Some(DictGet(fs.config[1], "web_app_features", << >>)),
               is_loaded |-> TRUE, model_config |-> None])

\* A get_predictor that constructs a TaxiFarePredictor on every call.
get_predictor_uncached(instance, obj, fs, id) ==
    IF load_model_components(fs) = None
    THEN [raised |-> TRUE, constructed |-> TRUE, instance |-> instance, obj |-> obj]
    ELSE [raised |-> FALSE, constructed |-> TRUE, instance |-> Some(id),
          obj |-> load_model_components(fs)[1]]

\* get_predictor: instance is _predictor_instance and obj the fields of the
\* object it refers to; id is the identity a newly constructed object gets.
\* A constructor that raises leaves _predictor_instance as it was.
get_predictor(instance, obj, fs, id) ==
    IF instance # None
    THEN [raised |-> FALSE, constructed |-> FALSE, instance |-> instance, obj |-> obj]
    ELSE IF load_model_components(fs) = None
    THEN [raised |-> TRUE, constructed |-> TRUE, instance |-> None, obj |-> obj]
    ELSE [raised |-> FALSE, constructed |-> TRUE, instance |-> Some(id),
          obj |-> load_model_components(fs)[1]]

\* TaxiFarePredictor.get_model_info
get_model_info(obj) ==
    IF ~obj.is_loaded THEN [loaded |-> FALSE, error |-> "Model not loaded"]
    ELSE [loaded |-> TRUE,
          model_type |-> obj.model[1].kind,
          features_count |-> Len(obj.feature_names[1]),
          feature_names |-> obj.feature_names[1],
          config |-> IF obj.model_config # None THEN obj.model_config[1] ELSE << >>]

----------------------------------------------------------------------------
(* The HTTP layer: backend/app/models.py and backend/app/main.py.            *)

\* Field(ge=..., le=...) of PredictionRequest
LONGITUDE_GE == -740500
LONGITUDE_LE == -737500
LATITUDE_GE == 406300
LATITUDE_LE == 408500

\* PredictionRequest: the Field bounds and the validators
ValidPredictionRequest(req) ==
    /\ LONGITUDE_GE <= req.pickup_longitude /\ req.pickup_longitude <= LONGITUDE_LE
    /\ LATITUDE_GE <= req.pickup_latitude /\ req.pickup_latitude <= LATITUDE_LE
    /\ LONGITUDE_GE <= req.dropoff_longitude /\ req.dropoff_longitude <= LONGITUDE_LE
    /\ LATITUDE_GE <= req.dropoff_latitude /\ req.dropoff_latitude <= LATITUDE_LE
    /\ 1 <= req.passenger_count /\ req.passenger_count <= 6

Reply(status, body, steps) ==
    [status |-> status, body |-> body, steps |-> steps, passed |-> None]

\* The body of an error response
ErrorBody(error) == [error |-> error]

\* A handler that never reports the model as unavailable.
ModelNeverUnavailable(pred, obj) == FALSE

\* if predictor is None or not predictor.is_loaded
ModelUnavailable(pred, obj) == pred = None \/ ~obj.is_loaded

\* Lines 164-177 of the /predict handler: the result as a PredictionResponse,
\* or HTTP 500 for an exception.
predict_reply(r) ==
    IF r.raised # "" THEN Reply(500, ErrorBody("PredictionError"), r.steps)
    ELSE [Reply(200, r.result[1], r.steps) EXCEPT !.passed = r.passed]

\* The /predict handler of main.py.
predict_handler(pred, obj, now, req, outcome) ==
    IF ModelUnavailable(pred, obj) THEN Reply(503, ErrorBody("ServiceUnavailable"), << >>)
    ELSE IF ~validate_nyc_coordinates(req.pickup_latitude, req.pickup_longitude)
    THEN Reply(400, ErrorBody("ValidationError"), << >>)
    ELSE IF ~validate_nyc_coordinates(req.dropoff_latitude, req.dropoff_longitude)
    THEN Reply(400, ErrorBody("ValidationError"), << >>)
    ELSE predict_reply(predict_fare(obj, now, req.pickup_longitude, req.pickup_latitude, req.dropoff_longitude, req.dropoff_latitude, req.passenger_count, outcome))

\* A /predict route that hands every request body to the predictor.
post_predict_unvalidated(pred, obj, now, req, outcome) ==
    predict_reply(predict_fare(obj, now, req.pickup_longitude, req.pickup_latitude, req.dropoff_longitude, req.dropoff_latitude, req.passenger_count, outcome))

\* POST /predict: the body is parsed into a PredictionRequest before the
\* handler runs.
post_predict(pred, obj, now, req, outcome) ==
    IF ~ValidPredictionRequest(req) THEN Reply(422, ErrorBody("RequestValidationError"), << >>)
    ELSE predict_handler(pred, obj, now, req, outcome)

----------------------------------------------------------------------------
(* EnhancedTaxiFarePredictor: backend/models/enhanced_taxi_fare_predictor.py *)

\* nyc_bounds of validate_inputs
ENHANCED_MIN_LNG == -743000
ENHANCED_MAX_LNG == -737000
ENHANCED_MIN_LAT == 405000
ENHANCED_MAX_LAT == 409000

\* Day of the week of a date, 0 = Monday as datetime.weekday().
DayOfWeek(year, month, day) ==
    LET t == <<0, 3, 2, 5, 0, 3, 5, 1, 4, 6, 2, 4>>
        y == IF month < 3 THEN year - 1 ELSE year
        sunday0 == (y + y \div 4 - y \div 100 + y \div 400 + t[month] + day) % 7
    IN  (sunday0 + 6) % 7

\* A conversion that reads the wall clock in place of its argument.
to_datetime_now(pickup_datetime) == Now(clock)

\* pd.to_datetime of a timestamp string "YYYY-MM-DD HH:00:00", held as
\* <<year, month, day, hour>>.
to_datetime(pickup_datetime) ==
    [year |-> pickup_datetime[1], month |-> pickup_datetime[2],
     day |-> pickup_datetime[3], hour |-> pickup_datetime[4],
     weekday |-> DayOfWeek(pickup_datetime[1], pickup_datetime[2], pickup_datetime[3])]

\* The config keys __init__ reads.
EnhancedConfigKeys == {"web_app_features", "model_type", "model_class", "performance_metrics"}

\* EnhancedTaxiFarePredictor.__init__: the object's fields, or None when it
\* raises.
enhanced_init(fs) ==
    IF fs.model = None \/ fs.scaler = None \/ fs.config = None THEN None
    ELSE IF ~(EnhancedConfigKeys \subseteq DOMAIN fs.config[1]) THEN None
    ELSE Some([model |-> fs.model[1], scaler |-> fs.scaler[1], config |-> fs.config[1],
               feature_names |-> fs.config[1].web_app_features])

\* 'name' in self.feature_names
InSeq(name, seq) == \E i \in 1..Len(seq) : seq[i] = name

validate_inputs(pickup_lng, pickup_lat, dropoff_lng, dropoff_lat, passenger_count) ==
    (IF ~(ENHANCED_MIN_LNG <= pickup_lng /\ pickup_lng <= ENHANCED_MAX_LNG)
     THEN <<"Pickup longitude outside NYC bounds">> ELSE << >>)
    \o (IF ~(ENHANCED_MIN_LAT <= pickup_lat /\ pickup_lat <= ENHANCED_MAX_LAT)
        THEN <<"Pickup latitude outside NYC bounds">> ELSE << >>)
    \o (IF ~(ENHANCED_MIN_LNG <= dropoff_lng /\ dropoff_lng <= ENHANCED_MAX_LNG)
        THEN <<"Dropoff longitude outside NYC bounds">> ELSE << >>)
    \o (IF ~(ENHANCED_MIN_LAT <= dropoff_lat /\ dropoff_lat <= ENHANCED_MAX_LAT)
        THEN <<"Dropoff latitude outside NYC bounds">> ELSE << >>)
    \o (IF ~(1 <= passenger_count /\ passenger_count <= 6)
        THEN <<"Passenger count must be between 1 and 6">> ELSE << >>)
    \o (IF haversine_distance(pickup_lat, pickup_lng, dropoff_lat, dropoff_lng) < 10
        THEN <<"Pickup and dropoff locations are too close">> ELSE << >>)

\* The base features of predict_fare (lines 90-130).
enhanced_base_features(pickup_lng, pickup_lat, dropoff_lng, dropoff_lat, dt, passenger_count) ==
    [pickup_longitude |-> pickup_lng,
     pickup_latitude |-> pickup_lat,
     dropoff_longitude |-> dropoff_lng,
     dropoff_latitude |-> dropoff_lat,
     passenger_count |-> passenger_count,
     hour |-> dt.hour,
     day |-> dt.day,
     month |-> dt.month,
     weekday |-> dt.weekday,
     year |-> dt.year,
     distance |-> haversine_distance(pickup_lat, pickup_lng, dropoff_lat, dropoff_lng),
     jfk_pickup_dist |-> haversine_distance(pickup_lat, pickup_lng, JFK[1], JFK[2]),
     ewr_pickup_dist |-> haversine_distance(pickup_lat, pickup_lng, EWR[1], EWR[2]),
     lga_pickup_dist |-> haversine_distance(pickup_lat, pickup_lng, LGA[1], LGA[2]),
     is_weekend |-> BoolInt(dt.weekday >= 5),
     is_rush_hour |-> BoolInt(dt.hour \in {7, 8, 9, 17, 18, 19}),
     is_night |-> BoolInt(dt.hour >= 22 \/ dt.hour <= 6),
     manhattan_pickup_dist |->
         haversine_distance(pickup_lat, pickup_lng, MANHATTAN_CENTER[1], MANHATTAN_CENTER[2]),
     is_manhattan_pickup |-> BoolInt(InManhattan(pickup_lat, pickup_lng)),
     is_manhattan_dropoff |-> BoolInt(InManhattan(dropoff_lat, dropoff_lng))]

\* The log-transformed features the model's schema names (lines 132-143).
enhanced_log_features(feature_names, base) ==
    LET names == {n \in {"log_distance", "log_jfk_pickup_dist", "log_ewr_pickup_dist",
                         "log_lga_pickup_dist"} : InSeq(n, feature_names)}
    IN  [n \in names |->
            IF n = "log_distance" THEN Log1pMilli(base.distance)
            ELSE IF n = "log_jfk_pickup_dist" THEN Log1pMilli(base.jfk_pickup_dist)
            ELSE IF n = "log_ewr_pickup_dist" THEN Log1pMilli(base.ewr_pickup_dist)
            ELSE Log1pMilli(base.lga_pickup_dist)]

\* The features dict of predict_fare.
enhanced_features(feature_names, base) == base @@ enhanced_log_features(feature_names, base)

\* Time-based multiplier of validate_prediction, in thousandths.
TimeMultiplier(features) ==
    LET rush    == IF features.is_rush_hour # 0 THEN 12 ELSE 10
        night   == IF features.is_night # 0 THEN 13 ELSE 10
        weekend == IF features.is_weekend # 0 /\ features.is_night # 0 THEN 14 ELSE 10
    IN  rush * night * weekend

\* An airport test that counts a pickup exactly 2 miles away.
IsAirportTripInclusive(features) ==
    \/ features.jfk_pickup_dist <= 2000
    \/ features.ewr_pickup_dist <= 2000
    \/ features.lga_pickup_dist <= 2000

\* Within 2 miles of an airport
IsAirportTrip(features) ==
    \/ features.jfk_pickup_dist < 2000
    \/ features.ewr_pickup_dist < 2000
    \/ features.lga_pickup_dist < 2000

\* base_rate_per_mile of validate_prediction, in cents per mile
RatePerMile(features) == IF IsAirportTrip(features) THEN (250 * 15) \div 10 ELSE 250

\* min_expected = base_fare + (distance * base_rate_per_mile * multiplier)
MinExpected(distance, features) ==
    250 + RoundDiv(distance * ((RatePerMile(features) * TimeMultiplier(features)) \div 100), 10000)

\* max_expected = min_expected * 2.5
MaxExpected(min_expected) == RoundDiv(min_expected * 5, 2)

\* A validation without the upper bound.
BusinessLogicNoCeiling(prediction, min_expected, max_expected) ==
    IF 2 * prediction < min_expected THEN min_expected ELSE prediction

\* A validation that replaces every prediction below min_expected.
BusinessLogicStrict(prediction, min_expected, max_expected) ==
    IF prediction < min_expected THEN min_expected
    ELSE IF prediction > max_expected THEN max_expected
    ELSE prediction

\* A validation that clamps a low prediction to half of min_expected.
BusinessLogicClamp(prediction, min_expected, max_expected) ==
    IF 2 * prediction < min_expected THEN RoundDiv(min_expected, 2)
    ELSE IF prediction > max_expected THEN max_expected
    ELSE prediction

\* Lines 204-210 of validate_prediction.
BusinessLogic(prediction, min_expected, max_expected) ==
    IF 2 * prediction < min_expected THEN min_expected
    ELSE IF prediction > max_expected THEN max_expected
    ELSE prediction

validate_prediction(prediction, distance, features) ==
    BusinessLogic(prediction, MinExpected(distance, features),
                  MaxExpected(MinExpected(distance, features)))

\* Lines 163-173 of predict_fare: the model's prediction, validated.
enhanced_predict(obj, X_scaled, distance, features, outcome) ==
    IF outcome = "model.predict" \/ ~CanPredict(obj.model, X_scaled)
    THEN Raised("Exception", <<"validate_inputs", "scaler.transform", "model.predict">>)
    ELSE Returned(validate_prediction(RegressorPredict(obj.model, X_scaled), distance, features),
                  <<"validate_inputs", "scaler.transform", "model.predict", "validate_prediction">>)

\* Lines 145-157 of predict_fare: the DataFrame in the schema's order, scaled.
enhanced_scale(obj, features, outcome) ==
    IF \E i \in 1..Len(obj.feature_names) : obj.feature_names[i] \notin DOMAIN features
    THEN Raised("KeyError", <<"validate_inputs">>)
    ELSE IF outcome = "scaler.transform"
    THEN Raised("Exception", <<"validate_inputs", "scaler.transform">>)
    ELSE enhanced_predict(obj,
            ScalerTransform(obj.scaler,
                [i \in 1..Len(obj.feature_names) |-> features[obj.feature_names[i]]]),
            features.distance, features, outcome)

\* EnhancedTaxiFarePredictor.predict_fare: what it returns or raises, and the
\* steps it executed.
enhanced_predict_fare(obj, pickup_lng, pickup_lat, dropoff_lng, dropoff_lat, pickup_datetime, passenger_count, outcome) ==
    IF validate_inputs(pickup_lng, pickup_lat, dropoff_lng, dropoff_lat, passenger_count) # << >>
    THEN Raised("ValueError", <<"validate_inputs">>)
    ELSE enhanced_scale(obj,
            enhanced_features(obj.feature_names,
                enhanced_base_features(pickup_lng, pickup_lat, dropoff_lng, dropoff_lat,
                                       to_datetime(pickup_datetime), passenger_count)),
            outcome)

----------------------------------------------------------------------------
(* Sample artifacts and requests.                                            *)

MODEL_LINEAR == SingleModel(250, 250, 11)
MODEL_NEGATIVE == SingleModel(-500, 0, 1)
MODEL_ZERO == SingleModel(0, 0, 1)
MODEL_HUGE == SingleModel(100000, 0, 1)
MODEL_HOURLY == SingleModel(300, 50000, 6)
MODEL_FIRST_COLUMN == SingleModel(250, 250, 1)
MODEL_CHEAP == SingleModel(200, 0, 1)
MODEL_FOREST ==
    EnsembleModel(250, 250, 11,
        << Regressor(200, 250, 11), Regressor(300, 250, 11), Regressor(250, 300, 11),
           Regressor(250, 250, 11), Regressor(100, 200, 11), Regressor(3000, 0, 1) >>)
MODEL_BARE == EnsembleModel(250, 250, 11, << >>)
MODEL_STUMP == EnsembleModel(250, 250, 11, << Regressor(250, 250, 11) >>)
MODEL_WILD == EnsembleModel(400, 0, 1, << Regressor(100, 0, 1), Regressor(2500, 0, 1) >>)

SCALER_UNIT == Scaler(0, 1)
SCALER_ROBUST == Scaler(100, 2)

\* The keys of model_config.json besides the schema.
ConfigInfo ==
    [model_type |-> "ensemble", model_class |-> "VotingRegressor",
     performance_metrics |-> [test_rmse |-> 350]]

CONFIG_FULL == ConfigInfo @@ [web_app_features |-> FEATURE_NAMES]
CONFIG_SUBSET == ConfigInfo @@ [web_app_features |-> <<"distance", "hour", "passenger_count">>]
CONFIG_DRIFTED ==
    ConfigInfo @@ [web_app_features |-> <<"distance", "log_jfk_pickup_dist", "hour">>]
CONFIG_UNKNOWN == ConfigInfo @@ [web_app_features |-> <<"distance", "surge_zone", "hour">>]
CONFIG_EMPTY == ConfigInfo @@ [web_app_features |-> << >>]
CONFIG_NO_SCHEMA == ConfigInfo

Deployment(model, scaler, config) == [model |-> model, scaler |-> scaler, config |-> config]

\* What the models directory can hold when the process starts.
Deployments ==
    { Deployment(Some(MODEL_LINEAR), Some(SCALER_UNIT), Some(CONFIG_FULL)),
      Deployment(Some(MODEL_NEGATIVE), Some(SCALER_UNIT), Some(CONFIG_FULL)),
      Deployment(Some(MODEL_ZERO), Some(SCALER_ROBUST), Some(CONFIG_FULL)),
      Deployment(Some(MODEL_HUGE), Some(SCALER_ROBUST), Some(CONFIG_FULL)),
      Deployment(Some(MODEL_HOURLY), Some(SCALER_UNIT), Some(CONFIG_FULL)),
      Deployment(Some(MODEL_FOREST), Some(SCALER_UNIT), Some(CONFIG_FULL)),
      Deployment(Some(MODEL_STUMP), Some(SCALER_UNIT), Some(CONFIG_FULL)),
      Deployment(Some(MODEL_BARE), Some(SCALER_UNIT), Some(CONFIG_FULL)),
      Deployment(Some(MODEL_WILD), Some(SCALER_UNIT), Some(CONFIG_FULL)),
      Deployment(Some(MODEL_FIRST_COLUMN), Some(SCALER_ROBUST), Some(CONFIG_SUBSET)),
      Deployment(Some(MODEL_FIRST_COLUMN), Some(SCALER_UNIT), Some(CONFIG_DRIFTED)),
      Deployment(Some(MODEL_LINEAR), Some(SCALER_UNIT), Some(CONFIG_EMPTY)),
      Deployment(Some(MODEL_LINEAR), Some(SCALER_UNIT), Some(CONFIG_NO_SCHEMA)),
      Deployment(None, Some(SCALER_UNIT), Some(CONFIG_FULL)),
      Deployment(Some(MODEL_LINEAR), None, Some(CONFIG_FULL)),
      Deployment(Some(MODEL_LINEAR), Some(SCALER_UNIT), None) }

PassengerCounts == {1, 7}

\* The coordinates the requests of the web application carry.
WebPoints == {PT_MIDTOWN, PT_UPTOWN, PT_NEAR_EWR, PT_NORTH}

Requests ==
    { [pickup_longitude |-> p[2], pickup_latitude |-> p[1],
       dropoff_longitude |-> d[2], dropoff_latitude |-> d[1],
       passenger_count |-> n] : p \in WebPoints, d \in WebPoints, n \in PassengerCounts }

----------------------------------------------------------------------------
(* The application as a state machine.                                       *)

NoCall == [op |-> "none"]

Init ==
    /\ files \in Deployments
    /\ clock = 0
    /\ app = "created"
    /\ predictor = None
    /\ predictor_instance = None
    /\ self = Unloaded
    /\ enhanced = None
    /\ response = NoCall
    /\ calls = << >>
    /\ prev = NoCall

\* Time passes.
Tick ==
    /\ clock < MaxTick
    /\ clock' = clock + 1
    /\ UNCHANGED <<files, app, predictor, predictor_instance, self, enhanced, response, calls, prev>>

\* startup_event: predictor = get_predictor(), which constructs the
\* TaxiFarePredictor when _predictor_instance is None. A constructor that
\* raises leaves both globals None and the server does not start.
Startup ==
    /\ app = "created"
    /\ \E r \in {get_predictor(predictor_instance, self, files, "TaxiFarePredictor")} :
           IF r.raised
           THEN /\ app' = "failed"
                /\ UNCHANGED <<predictor, predictor_instance, self>>
           ELSE /\ app' = "up"
                /\ self' = r.obj
                /\ predictor_instance' = r.instance
                /\ predictor' = r.instance
    /\ UNCHANGED <<files, clock, enhanced, response, calls, prev>>

\* A /predict that also stores the columns of the request's DataFrame as the
\* predictor's feature_names.
PredictCachingColumns(req, outcome) ==
    /\ app \in {"created", "up"}
    /\ \E r \in {post_predict(predictor, self, Now(clock), req, outcome)} :
           /\ response' = [op |-> "POST /predict", request |-> req,
                           fault |-> IF \E i \in 1..Len(r.steps) : r.steps[i] = outcome
                                     THEN outcome ELSE "ok",
                           status |-> r.status, body |-> r.body, passed |-> r.passed]
           /\ calls' = r.steps
           /\ self' = IF r.status = 200
                      THEN [self EXCEPT !.feature_names =
                                Some(_prepare_features(self.config[1], Now(clock),
                                        req.pickup_longitude, req.pickup_latitude,
                                        req.dropoff_longitude, req.dropoff_latitude,
                                        req.passenger_count).columns)]
                      ELSE self
    /\ UNCHANGED <<files, clock, app, predictor, predictor_instance, enhanced, prev>>

\* POST /predict. The response keeps, as fault, the step that failed while
\* the request was served ("ok" when none did), and, as passed, the arguments
\* predict_fare handed to calculate_fare_confidence.
Predict(req, outcome) ==
    /\ app \in {"created", "up"}
    /\ \E r \in {post_predict(predictor, self, Now(clock), req, outcome)} :
           /\ response' = [op |-> "POST /predict", request |-> req,
                           fault |-> IF \E i \in 1..Len(r.steps) : r.steps[i] = outcome
                                     THEN outcome ELSE "ok",
                           status |-> r.status, body |-> r.body, passed |-> r.passed]
           /\ calls' = r.steps
    /\ UNCHANGED <<files, clock, app, predictor, predictor_instance, self, enhanced, prev>>

\* GET /health
HealthCheck ==
    /\ app \in {"created", "up"}
    /\ LET model_loaded == predictor # None /\ self.is_loaded
       IN  response' = [op |-> "GET /health", status |-> 200,
                        body |-> [status |-> IF model_loaded THEN "healthy" ELSE "unhealthy",
                                  model_loaded |-> model_loaded,
                                  timestamp |-> Now(clock).stamp]]
    /\ calls' = << >>
    /\ UNCHANGED <<files, clock, app, predictor, predictor_instance, self, enhanced, prev>>

\* GET /model-info
GetModelInfo ==
    /\ app \in {"created", "up"}
    /\ response' = [op |-> "GET /model-info", status |-> 200,
                    body |-> IF predictor = None
                             THEN [loaded |-> FALSE, error |-> "Predictor not initialized"]
                             ELSE get_model_info(self)]
    /\ calls' = << >>
    /\ UNCHANGED <<files, clock, app, predictor, predictor_instance, self, enhanced, prev>>

Next ==
    \/ Tick
    \/ Startup
    \/ \E req \in Requests, outcome \in ExternalOutcomes : Predict(req, outcome)
    \/ HealthCheck
    \/ GetModelInfo

Spec == Init /\ [][Next]_vars

----------------------------------------------------------------------------
(* A script that constructs an EnhancedTaxiFarePredictor and calls its       *)
(* predict_fare with explicit pickup times.                                  *)

EnhancedDeployments ==
    { Deployment(Some(MODEL_HOURLY), Some(SCALER_UNIT), Some(CONFIG_FULL)),
      Deployment(Some(MODEL_LINEAR), Some(SCALER_ROBUST), Some(CONFIG_FULL)),
      Deployment(Some(MODEL_NEGATIVE), Some(SCALER_UNIT), Some(CONFIG_FULL)),
      Deployment(Some(MODEL_HUGE), Some(SCALER_UNIT), Some(CONFIG_FULL)),
      Deployment(Some(MODEL_CHEAP), Some(SCALER_UNIT), Some(CONFIG_FULL)),
      Deployment(Some(MODEL_FIRST_COLUMN), Some(SCALER_UNIT), Some(CONFIG_DRIFTED)),
      Deployment(Some(MODEL_FIRST_COLUMN), Some(SCALER_UNIT), Some(CONFIG_UNKNOWN)) }

\* <<pickup, dropoff>>
EnhancedTrips ==
    { <<PT_MIDTOWN, PT_UPTOWN>>, <<PT_NEAR_JFK, PT_MIDTOWN>>, <<PT_MIDTOWN, PT_BLOCK_AWAY>>,
      <<PT_MIDTOWN, PT_NEXTDOOR>>, <<PT_NORTH, PT_MIDTOWN>> }

\* Tuesday noon, Friday 08:00, Sunday 06:00
Timestamps == { <<2025, 6, 10, 12>>, <<2025, 6, 13, 8>>, <<2025, 6, 15, 6>> }

EnhancedArgs ==
    { [pickup_lng |-> t[1][2], pickup_lat |-> t[1][1],
       dropoff_lng |-> t[2][2], dropoff_lat |-> t[2][1],
       pickup_datetime |-> ts, passenger_count |-> n] :
         t \in EnhancedTrips, ts \in Timestamps, n \in PassengerCounts }

EnhancedOutcomes == {"ok", "scaler.transform", "model.predict"}

InitEnhanced ==
    /\ files \in EnhancedDeployments
    /\ clock = 0
    /\ app = "script"
    /\ predictor = None
    /\ predictor_instance = None
    /\ self = Unloaded
    /\ enhanced = enhanced_init(files)
    /\ response = NoCall
    /\ calls = << >>
    /\ prev = NoCall

\* predictor.predict_fare(...) on the EnhancedTaxiFarePredictor. prev keeps
\* the call before this one when that call had the same arguments.
EnhancedPredict(args, outcome) ==
    /\ app = "script"
    /\ enhanced # None
    /\ \E r \in {enhanced_predict_fare(enhanced[1], args.pickup_lng, args.pickup_lat,
                                       args.dropoff_lng, args.dropoff_lat,
                                       args.pickup_datetime, args.passenger_count, outcome)} :
           /\ response' = [op |-> "EnhancedTaxiFarePredictor.predict_fare", args |-> args,
                           at |-> clock, raised |-> r.raised, result |-> r.result]
           /\ calls' = r.steps
    /\ prev' = IF response.op = "EnhancedTaxiFarePredictor.predict_fare" /\ response.args = args
               THEN response ELSE NoCall
    /\ UNCHANGED <<files, clock, app, predictor, predictor_instance, self, enhanced>>

NextEnhanced ==
    \/ Tick
    \/ \E args \in EnhancedArgs, outcome \in EnhancedOutcomes : EnhancedPredict(args, outcome)

SpecEnhanced == InitEnhanced /\ [][NextEnhanced]_vars

----------------------------------------------------------------------------
(* Direct calls of the functions, one call per behaviour, on inputs drawn    *)
(* from bounded sets.                                                        *)

MaxPredictions == 3

RECURSIVE SeqsUpTo(_, _)
\* The sequences over S of length at most n.
SeqsUpTo(S, n) ==
    IF n = 0 THEN {<< >>}
    ELSE LET shorter == SeqsUpTo(S, n - 1)
         IN  shorter \cup {Append(q, x) : q \in {t \in shorter : Len(t) = n - 1}, x \in S}

\* Fares in cents
SampleFares == {-500, 0, 100, 1000, 3000}
SamplePredictions == {-500, 0, 100, 250, 400, 600, 1000, 5000, 100000}
\* Distances in thousandths of a mile
SampleDistances == {0, 6, 1246, 12840, 20675}
SampleConfigs == {CONFIG_FULL, CONFIG_SUBSET, CONFIG_DRIFTED, CONFIG_UNKNOWN, CONFIG_EMPTY}

\* The entries of the features dict validate_prediction reads.
SampleFlags ==
    [is_rush_hour : {0, 1}, is_night : {0, 1}, is_weekend : {0, 1},
     jfk_pickup_dist : {274, 2000, 13065}, ewr_pickup_dist : {13065},
     lga_pickup_dist : {1999, 8012}]

InitFunctions ==
    /\ files = Deployment(None, None, None)
    /\ clock \in 0..MaxTick
    /\ app = "functions"
    /\ predictor = None
    /\ predictor_instance = None
    /\ self = Unloaded
    /\ enhanced = None
    /\ response = NoCall
    /\ calls = << >>
    /\ prev = NoCall

UnchangedByFunctions ==
    UNCHANGED <<files, clock, app, predictor, predictor_instance, self, enhanced, calls, prev>>

CallFareConfidence(prediction, model_predictions, trip_distance) ==
    /\ app = "functions" /\ response = NoCall
    /\ response' = [op |-> "calculate_fare_confidence", prediction |-> prediction,
                    model_predictions |-> model_predictions,
                    result |-> calculate_fare_confidence(prediction, model_predictions,
                                                         trip_distance)]
    /\ UnchangedByFunctions

CallValidatePrediction(prediction, distance, features) ==
    /\ app = "functions" /\ response = NoCall
    /\ response' = [op |-> "validate_prediction", prediction |-> prediction,
                    distance |-> distance, features |-> features,
                    result |-> validate_prediction(prediction, distance, features)]
    /\ UnchangedByFunctions

\* validate_prediction applied to its own result, with the same distance and
\* features.
CallValidatePredictionTwice(prediction, distance, features) ==
    /\ app = "functions" /\ response = NoCall
    /\ \E once \in {validate_prediction(prediction, distance, features)} :
           response' = [op |-> "validate_prediction twice", prediction |-> prediction,
                        distance |-> distance, features |-> features, once |-> once,
                        result |-> validate_prediction(once, distance, features)]
    /\ UnchangedByFunctions

\* Every hour of a Tuesday and of a Saturday, as timestamp strings.
SampleTimestamps == { <<2025, 6, day, hour>> : day \in {10, 14}, hour \in 0..23 }

FeatureVariants == {"TaxiFarePredictor._prepare_features", "EnhancedTaxiFarePredictor.predict_fare"}

\* The features one of the two predictors derives for a trip from midtown to
\* uptown at the given time: the wall-clock time of the call for
\* _prepare_features, the pickup_datetime argument for the Enhanced predict_fare.
CallDeriveFeatures(variant, timestamp) ==
    /\ app = "functions" /\ response = NoCall
    /\ response' =
          [op |-> "derive features", variant |-> variant, hour |-> timestamp[4],
           features |->
               IF variant = "TaxiFarePredictor._prepare_features"
               THEN DerivedFeatures(to_datetime(timestamp), PT_MIDTOWN[2], PT_MIDTOWN[1],
                                    PT_UPTOWN[2], PT_UPTOWN[1], 1)
               ELSE enhanced_base_features(PT_MIDTOWN[2], PT_MIDTOWN[1], PT_UPTOWN[2],
                                           PT_UPTOWN[1], to_datetime(timestamp), 1)]
    /\ UnchangedByFunctions

DistanceFunctions == {"calculate_haversine_distance", "haversine_distance"}

\* One of the two distance functions applied to (a, b), to (b, a) and to (a, a).
CallHaversine(function, a, b) ==
    /\ app = "functions" /\ response = NoCall
    /\ response' =
          IF function = "calculate_haversine_distance"
          THEN [op |-> "haversine", function |-> function, a |-> a, b |-> b,
                forward |-> calculate_haversine_distance(a[1], a[2], b[1], b[2]),
                backward |-> calculate_haversine_distance(b[1], b[2], a[1], a[2]),
                same |-> calculate_haversine_distance(a[1], a[2], a[1], a[2])]
          ELSE [op |-> "haversine", function |-> function, a |-> a, b |-> b,
                forward |-> haversine_distance(a[1], a[2], b[1], b[2]),
                backward |-> haversine_distance(b[1], b[2], a[1], a[2]),
                same |-> haversine_distance(a[1], a[2], a[1], a[2])]
    /\ UnchangedByFunctions

CallPrepareFeatures(config, pickup, dropoff, passenger_count) ==
    /\ app = "functions" /\ response = NoCall
    /\ response' = [op |-> "_prepare_features", config |-> config,
                    pickup |-> pickup, dropoff |-> dropoff,
                    result |-> _prepare_features(config, Now(clock), pickup[2], pickup[1],
                                                 dropoff[2], dropoff[1], passenger_count)]
    /\ UnchangedByFunctions

NextFunctions ==
    \/ /\ response = NoCall
       /\ \E prediction \in SampleFares, model_predictions \in SeqsUpTo(SampleFares, MaxPredictions),
             trip_distance \in {1246} :
               CallFareConfidence(prediction, model_predictions, trip_distance)
    \/ /\ response = NoCall
       /\ \E prediction \in SamplePredictions, distance \in SampleDistances, features \in SampleFlags :
               CallValidatePrediction(prediction, distance, features)
    \/ /\ response = NoCall
       /\ \E prediction \in SamplePredictions, distance \in SampleDistances, features \in SampleFlags :
               CallValidatePredictionTwice(prediction, distance, features)
    \/ /\ response = NoCall
       /\ \E config \in SampleConfigs, pickup \in Points, dropoff \in Points, n \in PassengerCounts :
               CallPrepareFeatures(config, pickup, dropoff, n)
    \/ /\ response = NoCall
       /\ \E variant \in FeatureVariants, timestamp \in SampleTimestamps :
               CallDeriveFeatures(variant, timestamp)
    \/ /\ response = NoCall
       /\ \E function \in DistanceFunctions, a \in Points, b \in Points :
               CallHaversine(function, a, b)

SpecFunctions == InitFunctions /\ [][NextFunctions]_vars

----------------------------------------------------------------------------
(* Callers of get_predictor while the models directory changes.              *)

\* The most constructions of a TaxiFarePredictor in one run.
MaxLoads == 3

InitLoader ==
    /\ files \in Deployments
    /\ clock = 0
    /\ app = "loader"
    /\ predictor = None
    /\ predictor_instance = None
    /\ self = Unloaded
    /\ enhanced = None
    /\ response = NoCall
    /\ calls = << >>
    /\ prev = NoCall

\* The artifacts in the models directory are replaced.
Redeploy(deployment) ==
    /\ app = "loader"
    /\ deployment # files
    /\ files' = deployment
    /\ UNCHANGED <<clock, app, predictor, predictor_instance, self, enhanced, response, calls, prev>>

\* A call of get_predictor. calls lists the constructions so far; an object
\* gets the ordinal of its construction as identity.
GetPredictor ==
    /\ app = "loader"
    /\ predictor_instance # None \/ Len(calls) < MaxLoads
    /\ \E r \in {get_predictor(predictor_instance, self, files, Len(calls) + 1)} :
           /\ predictor_instance' = r.instance
           /\ self' = r.obj
           /\ response' = [op |-> "get_predictor", raised |-> r.raised,
                           constructed |-> r.constructed,
                           returned |-> IF r.raised THEN None ELSE r.instance]
           /\ calls' = IF r.constructed
                       THEN Append(calls, IF r.raised THEN "raised" ELSE "loaded")
                       ELSE calls
    /\ UNCHANGED <<files, clock, app, predictor, enhanced, prev>>

NextLoader ==
    \/ \E deployment \in Deployments : Redeploy(deployment)
    \/ GetPredictor

SpecLoader == InitLoader /\ [][NextLoader]_vars

----------------------------------------------------------------------------
(* Properties of the web application (Spec).                                 *)

SingleModelNonPositive ==
    /\ response.op = "POST /predict" /\ response.status = 200
    /\ self.model = Some(MODEL_NEGATIVE)
    /\ response.body.confidence = 100

\* An ensemble exposing one estimator answered with the default confidence.
OneEstimatorDefault ==
    /\ response.op = "POST /predict" /\ response.status = 200
    /\ self.model = Some(MODEL_STUMP)
    /\ response.body.confidence = 700

\* The latest response answers POST /predict with a prediction result.
PredictionReturned == response.op = "POST /predict" /\ response.status = 200

\* A coordinate of the request lies outside latitude [40.63, 40.85] or
\* longitude [-74.05, -73.75].
OutsideServiceArea(req) ==
    \/ req.pickup_latitude < 406300 \/ req.pickup_latitude > 408500
    \/ req.dropoff_latitude < 406300 \/ req.dropoff_latitude > 408500
    \/ req.pickup_longitude < -740500 \/ req.pickup_longitude > -737500
    \/ req.dropoff_longitude < -740500 \/ req.dropoff_longitude > -737500

\* C1: every prediction result TaxiFarePredictor.predict_fare returns has a
\* fare of at least 2.50, whatever the model predicted.
C1_FareFloor == PredictionReturned => response.body.fare >= 250

\* A model that predicts -5.00 answered, and the fare is 2.50.
C1_Witness ==
    /\ PredictionReturned
    /\ self.model = Some(MODEL_NEGATIVE)
    /\ response.body.fare = 250

\* C2: a prediction request with a coordinate outside the bounding box is
\* rejected with a validation error, and _prepare_features is not executed
\* for it.
C2_OutOfBoundsRejected ==
    response.op = "POST /predict" /\ OutsideServiceArea(response.request)
        => /\ response.status \in {400, 422}
           /\ \A i \in 1..Len(calls) : calls[i] # "_prepare_features"

\* A request from west of the box reached the running application with its
\* model loaded, and was rejected.
C2_Witness ==
    /\ response.op = "POST /predict"
    /\ app = "up" /\ self.is_loaded
    /\ response.request.pickup_longitude < -740500
    /\ response.status = 422
    /\ calls = << >>

\* C3: while the predictor is absent or not loaded, a prediction request is
\* answered with HTTP 503 and invokes neither the scaler nor the model; a
\* prediction result is only returned with model, scaler and configuration
\* loaded.
C3_UnavailableUntilLoaded ==
    /\ [](PredictionReturned =>
            /\ predictor # None /\ self.is_loaded
            /\ self.model # None /\ self.scaler # None /\ self.config # None)
    /\ [][ (predictor = None \/ ~self.is_loaded)
           /\ response' # response /\ response'.op = "POST /predict"
             => /\ response'.status \in {422, 503}
                /\ ValidPredictionRequest(response'.request) => response'.status = 503
                /\ calls' = << >> ]_vars

\* A well-formed request arrived before the predictor was created and was
\* answered with 503.
C3_Witness ==
    /\ predictor = None
    /\ response.op = "POST /predict"
    /\ ValidPredictionRequest(response.request)
    /\ response.status = 503
    /\ calls = << >>

\* C5: a request whose pickup and dropoff coordinates are identical ends with
\* an error; no prediction result with a distance of 0 is returned.
C5_DegenerateTripRejected ==
    /\ response.op = "POST /predict"
       /\ response.request.pickup_latitude = response.request.dropoff_latitude
       /\ response.request.pickup_longitude = response.request.dropoff_longitude
         => response.status # 200
    /\ PredictionReturned => response.body.distance_miles # 0

\* C7: when a step of predict_fare fails, the call ends with an error and
\* returns no result.
C7_NoFailureSwallowed ==
    response.op = "POST /predict" /\ response.fault # "ok" => response.status # 200

\* C14: every prediction result contains the fare range {min, max} of the
\* confidence estimator, alongside the fare and the confidence.
C14_ResultHasFareRange ==
    PredictionReturned
      => {"fare", "confidence", "fare_range"} \subseteq DOMAIN response.body

\* C15: once the predictor is loaded, no prediction, model-info or health
\* request (nor any other step) changes its model, scaler, config,
\* feature_names or is_loaded, nor the globals that hold it.
C15_BundleReadOnly ==
    [][self.is_loaded
         => /\ self'.model = self.model /\ self'.scaler = self.scaler
            /\ self'.config = self.config /\ self'.feature_names = self.feature_names
            /\ self'.is_loaded
            /\ predictor' = predictor /\ predictor_instance' = predictor_instance]_vars

\* After the clock moved on, a model-info request found the predictor loaded,
\* with the fields the loading gave it, for a schema of which
\* _prepare_features uses only a part.
C15_Witness ==
    /\ app = "up" /\ clock = MaxTick
    /\ response.op = "GET /model-info" /\ response.body.loaded
    /\ files.config = Some(CONFIG_DRIFTED)
    /\ Some(self) = load_model_components(files)

\* The reference fare of the trip of the latest prediction result.
ReferenceFareOfResponse ==
    MinExpected(response.body.distance_miles,
                DerivedFeatures(Now(response.body.prediction_timestamp),
                                response.request.pickup_longitude,
                                response.request.pickup_latitude,
                                response.request.dropoff_longitude,
                                response.request.dropoff_latitude,
                                response.request.passenger_count))

\* C8: the fare of a prediction result is never greater than 2.5 times the
\* reference fare of the trip.
C8_FareBelowUpperBound ==
    PredictionReturned => 2 * response.body.fare <= 5 * ReferenceFareOfResponse

\* C22: in every result of predict_fare, for every expected schema, the
\* features mapping has exactly the schema's names as keys and maps each name
\* to the scaled value of the feature with that same name.
C22_FeaturesMatchSchema ==
    PredictionReturned
      => LET schema  == DictGet(self.config[1], "web_app_features", << >>)
             req     == response.request
             derived == DerivedFeatures(Now(response.body.prediction_timestamp),
                            req.pickup_longitude, req.pickup_latitude,
                            req.dropoff_longitude, req.dropoff_latitude,
                            req.passenger_count)
         IN  /\ DOMAIN response.body.features = {schema[i] : i \in 1..Len(schema)}
             /\ \A name \in DOMAIN response.body.features :
                    /\ name \in DOMAIN derived
                    /\ response.body.features[name]
                         = ScalerTransform(self.scaler[1], << derived[name] >>)[1]

----------------------------------------------------------------------------
(* Properties of get_predictor (SpecLoader).                                 *)

\* The cached instance is set.
InstanceCached == predictor_instance # None

\* C23: after any sequence of get_predictor calls, a cached instance has
\* is_loaded true with model, scaler and feature_names loaded; every
\* successful call returns that same instance, which is constructed at most
\* once; a construction whose loading fails raises and leaves the cached
\* instance unset, and a later call attempts loading again.
C23_SingleLoadedInstance ==
    /\ [](InstanceCached
            => /\ self.is_loaded
               /\ self.model # None /\ self.scaler # None /\ self.feature_names # None)
    /\ []((response.op = "get_predictor" /\ ~response.raised)
            => InstanceCached /\ response.returned = predictor_instance)
    /\ []((response.op = "get_predictor" /\ response.raised)
            => ~InstanceCached /\ response.constructed)
    /\ [][InstanceCached
            => predictor_instance' = predictor_instance /\ self' = self /\ calls' = calls]_vars
    /\ [][(~InstanceCached /\ files' = files)
            => Len(calls') = Len(calls) + 1 /\ response'.constructed]_vars

\* A construction failed, the next one succeeded after the artifacts were
\* replaced, and a later call returned the object of that second
\* construction without constructing again.
C23_Witness ==
    /\ calls = << "raised", "loaded" >>
    /\ response.op = "get_predictor"
    /\ ~response.constructed
    /\ response.returned = Some(2)
    /\ predictor_instance = Some(2)
    /\ self.is_loaded

----------------------------------------------------------------------------
(* Properties of the functions (SpecFunctions).                              *)

\* C4: _prepare_features yields a vector of exactly the schema's length, with
\* the schema's names in the schema's order.
C4_SchemaAligned ==
    response.op = "_prepare_features"
      => /\ response.result.columns = DictGet(response.config, "web_app_features", << >>)
         /\ Len(response.result.values)
              = Len(DictGet(response.config, "web_app_features", << >>))

\* C6: the confidence calculate_fare_confidence returns lies in [0, 1].
C6_ConfidenceInUnitInterval ==
    response.op = "calculate_fare_confidence"
      => 0 <= response.result.confidence /\ response.result.confidence <= 1000

\* Several predictions whose mean is not positive: the confidence is the
\* floor, 0.1.
C6_Witness ==
    /\ response.op = "calculate_fare_confidence"
    /\ Len(response.model_predictions) >= 2
    /\ SeqSum(response.model_predictions) <= 0
    /\ response.result.confidence = 100

\* The call of validate_prediction had a prediction below half of the
\* reference fare.
BelowLowerBound ==
    /\ response.op = "validate_prediction"
    /\ 2 * response.prediction < MinExpected(response.distance, response.features)

\* C10 as amended: a prediction below half of the reference fare is replaced
\* by the reference fare itself.
C10_LowPredictionBecomesReference ==
    BelowLowerBound => response.result = MinExpected(response.distance, response.features)

\* A prediction of 1.00 for a 12.84 mile trip came back as the reference fare.
C10_Witness ==
    /\ BelowLowerBound
    /\ response.prediction = 100
    /\ response.distance = 12840
    /\ response.result = MinExpected(response.distance, response.features)
    /\ response.result > 2 * response.prediction

\* C10: a prediction below the lower bound is replaced by the lower bound,
\* half of the reference fare.
C10_LowPredictionBecomesLowerBound ==
    BelowLowerBound
      => response.result = RoundDiv(MinExpected(response.distance, response.features), 2)

\* C13: in every feature-derivation variant and for every hour, is_rush_hour
\* is 1 exactly for the hours 7, 8, 9, 17, 18, 19 and is_night is 1 exactly
\* for hour >= 22 or hour <= 5.
C13_TemporalFlags ==
    response.op = "derive features"
      => /\ response.features.is_rush_hour
              = (IF response.hour \in {7, 8, 9, 17, 18, 19} THEN 1 ELSE 0)
         /\ response.features.is_night
              = (IF response.hour >= 22 \/ response.hour <= 5 THEN 1 ELSE 0)

\* The part of C13 that holds in both variants: the rush-hour flag.
RushHourFlagExact ==
    response.op = "derive features"
      => response.features.is_rush_hour
           = (IF response.hour \in {7, 8, 9, 17, 18, 19} THEN 1 ELSE 0)

\* The night flag of C13 holds in TaxiFarePredictor._prepare_features.
NightFlagExactInWebVariant ==
    response.op = "derive features" /\ response.variant = "TaxiFarePredictor._prepare_features"
      => response.features.is_night
           = (IF response.hour >= 22 \/ response.hour <= 5 THEN 1 ELSE 0)

\* C19: with fewer than two secondary predictions (none or one),
\* calculate_fare_confidence returns confidence exactly 0.7 and the range
\* [max(2.50, primary - 20%), primary + 20%].
C19_DefaultConfidence ==
    (response.op = "calculate_fare_confidence" /\ Len(response.model_predictions) < 2)
      => /\ response.result.confidence = 700
         /\ response.result.fare_range.min
              = Max(250, (response.prediction * 80) \div 100)
         /\ response.result.fare_range.max = (response.prediction * 120) \div 100

\* A primary prediction of 10.00 with a single secondary prediction:
\* confidence 0.7 and range [8.00, 12.00].
C19_Witness ==
    /\ response.op = "calculate_fare_confidence"
    /\ Len(response.model_predictions) = 1
    /\ response.prediction = 1000
    /\ response.result.confidence = 700
    /\ response.result.fare_range = [min |-> 800, max |-> 1200]

\* C20: the fare range satisfies 2.50 <= min <= max for every primary
\* prediction (below 2.50, zero and negative included) and every list of
\* secondary predictions.
C20_RangeOrdered ==
    response.op = "calculate_fare_confidence"
      => /\ 250 <= response.result.fare_range.min
         /\ response.result.fare_range.min <= response.result.fare_range.max

ValidateCalled == response.op = "validate_prediction"

\* The reference fare of the latest call of validate_prediction.
ReferenceFare == MinExpected(response.distance, response.features)

\* C11: validate_prediction returns a value inside [reference_fare x 0.5,
\* reference_fare x 2.5], and exactly reference_fare x 2.5 for a prediction
\* above it.
C11_ResultInRange ==
    ValidateCalled
      => /\ 2 * response.result >= ReferenceFare
         /\ response.result <= MaxExpected(ReferenceFare)
         /\ response.prediction > MaxExpected(ReferenceFare)
              => response.result = MaxExpected(ReferenceFare)

\* A prediction of 1000.00 for an airport pickup on a weekend night came back
\* as 2.5 times the reference fare.
C11_Witness ==
    /\ ValidateCalled
    /\ response.prediction = 100000
    /\ response.features.is_night = 1 /\ response.features.is_weekend = 1
    /\ response.features.lga_pickup_dist < 2000
    /\ response.distance = 20675
    /\ response.result = MaxExpected(ReferenceFare)
    /\ response.result < response.prediction

\* validate_prediction was applied to a prediction and then to its result.
ValidateCalledTwice == response.op = "validate_prediction twice"

\* C12: validate_prediction returns a prediction inside [reference_fare x
\* 0.5, reference_fare x 2.5] unchanged, and applying it twice gives the same
\* value as applying it once.
C12_Idempotent ==
    ValidateCalledTwice
      => /\ response.result = response.once
         /\ 2 * response.prediction >= ReferenceFare
            /\ response.prediction <= MaxExpected(ReferenceFare)
              => response.once = response.prediction

\* A prediction of 1.00 for a 12.84 mile trip was replaced by the first
\* application, and the second application returned that value unchanged.
C12_Witness ==
    /\ ValidateCalledTwice
    /\ response.prediction = 100
    /\ response.distance = 12840
    /\ response.once = ReferenceFare
    /\ response.once # response.prediction
    /\ response.result = response.once

\* 2.50 + distance x rate x multiplier as the claim states it: rate is 2.50,
\* or 3.75 for a pickup less than 2.0 miles from an airport; multiplier is
\* the product of 1.2 (rush hour), 1.3 (night) and 1.4 (weekend and night).
StatedReferenceFare(distance, features) ==
    LET rate == IF features.jfk_pickup_dist < 2000 \/ features.ewr_pickup_dist < 2000
                   \/ features.lga_pickup_dist < 2000
                THEN 375 ELSE 250
        multiplier == (IF features.is_rush_hour = 1 THEN 12 ELSE 10)
                      * (IF features.is_night = 1 THEN 13 ELSE 10)
                      * (IF features.is_weekend = 1 /\ features.is_night = 1 THEN 14 ELSE 10)
    IN  250 + RoundDiv(distance * ((rate * multiplier) \div 100), 10000)

\* C18: the reference fare validate_prediction uses is 2.50 + distance x rate
\* x multiplier. It is what validate_prediction returns for a prediction far
\* below it, and 2.5 times it is what it returns for a prediction far above.
C18_ReferenceFareFormula ==
    ValidateCalled
      => /\ response.prediction = -500
              => response.result = StatedReferenceFare(response.distance, response.features)
         /\ response.prediction = 100000
              => response.result
                   = RoundDiv(5 * StatedReferenceFare(response.distance, response.features), 2)

\* A rush-hour weekend night, 20.675 miles, JFK exactly 2.0 miles away and no
\* other airport near: the rate stays 2.50 and the multiplier is 1.2 x 1.3 x
\* 1.4, so the reference fare is 2.50 + 20.675 x 2.50 x 2.184 = 115.39.
C18_Witness ==
    /\ ValidateCalled
    /\ response.prediction = -500
    /\ response.distance = 20675
    /\ response.features.is_rush_hour = 1 /\ response.features.is_night = 1
    /\ response.features.is_weekend = 1
    /\ response.features.jfk_pickup_dist = 2000 /\ response.features.lga_pickup_dist = 8012
    /\ response.result = 11539

----------------------------------------------------------------------------
(* Properties of the EnhancedTaxiFarePredictor (SpecEnhanced).               *)

\* C16: the fare EnhancedTaxiFarePredictor.predict_fare returns is at least
\* the minimum fare 2.50.
C16_EnhancedFareFloor ==
    response.op = "EnhancedTaxiFarePredictor.predict_fare" /\ response.result # None
      => response.result[1] >= 250

\* The latest two calls of predict_fare had the same arguments, pickup time
\* included, and both returned a fare.
SameCallTwice ==
    /\ prev.op = "EnhancedTaxiFarePredictor.predict_fare"
    /\ response.op = "EnhancedTaxiFarePredictor.predict_fare"
    /\ prev.args = response.args
    /\ prev.result # None /\ response.result # None

====
